---- MODULE Spec2Model ----
(***************************************************************************)
(* Wall-paint visualizer: the wall classifier and detection pipeline of    *)
(* backend/improved_sam_visualizer.py and the request handlers and mask    *)
(* cache of backend/app.py.                                                *)
(*                                                                         *)
(* Numbers.  Classification scores are held in hundredths (0.95 is 95),    *)
(* the oracle's stability scores in tenths (0.9 is 9), and a segment's     *)
(* confidence (their product) in thousandths (0.5 is 500).  The float      *)
(* comparisons of the classifier are written as the equivalent integer     *)
(* cross-multiplications.  scale_factor is the rational <<num, den>>.      *)
(* A requested opacity is held in hundredths (0.7 is 70), the effective    *)
(* opacity of a wall in thousandths, and the brightness factor as the      *)
(* rational <<num, den>>; pixels are triples of 0..255.                    *)
(***************************************************************************)
EXTENDS Integers, Sequences, FiniteSets, TLC

VARIABLES
    visualizer,     \* app.py global: TRUE when the SAM visualizer is loaded
    mask_cache,     \* app.py global: image_hash -> cache entry, or NoEntry
    pc,             \* per worker thread: the statement it is about to run
    req,            \* per worker thread: the request it is serving
    loc,            \* per worker thread: the handler's local variables
    resp,           \* per worker thread: the response of its last request
    hist,           \* per worker thread: what its request did (observation)
    oracle_calls,   \* per image: mask_generator.generate calls since the last clear
    answered,       \* per image: a detect succeeded since the last clear
    started,        \* number of requests started
    cls_in,         \* classifier harness: the input (bbox, image shape)
    cls_out,        \* classifier harness: the result of classify_wall_advanced
    det_in,         \* detection harness: the oracle's proposals
    det_out,        \* detection harness: the result of detect_walls_improved
    bat_in,         \* batch harness: the image and the oracle's proposals
    bat_out,        \* batch harness: the results of detection, rescaling, painting
    px_in,          \* paint harness: a cache entry with pixels and a paint request
    px_out          \* paint harness: the response of paint_instant

vars == <<visualizer, mask_cache, pc, req, loc, resp, hist, oracle_calls,
          answered, started, cls_in, cls_out, det_in, det_out,
          bat_in, bat_out, px_in, px_out>>

serverVars == <<visualizer, mask_cache, pc, req, loc, resp, hist, oracle_calls,
                answered, started>>

-----------------------------------------------------------------------------
(* Helpers *)

Max(a, b) == IF a >= b THEN a ELSE b

Min(a, b) == IF a <= b THEN a ELSE b

-----------------------------------------------------------------------------
(* improved_sam_visualizer.py *)

\* max_size of preprocess_image
MAX_SIZE == 1024

\* edge_margin of classify_wall_advanced
EDGE_MARGIN == 30

\* the retention threshold of detect_walls_improved, 0.5 in hundredths
SCORE_THRESHOLD == 50

\* preprocess_image: the working-resolution shape and the scale factor.
\* shape is <<height, width>>.
PreprocessImage(shape) ==
    LET h == shape[1]
        w == shape[2]
        longer == Max(h, w)
    IN  IF longer > MAX_SIZE
        THEN [shape |-> <<(h * MAX_SIZE) \div longer, (w * MAX_SIZE) \div longer>>,
              scale_factor |-> <<MAX_SIZE, longer>>]
        ELSE [shape |-> shape, scale_factor |-> <<1, 1>>]

\* A mutation of the classifier: the main-wall area test is `>=`.
ClassifyAreaInclusive(mask, bbox, image_shape) ==
    LET x == bbox[1]
        y == bbox[2]
        w == bbox[3]
        h == bbox[4]
        img_h == image_shape[1]
        img_w == image_shape[2]
        area == w * h
        img_area == img_w * img_h
        long == Max(w, h)
        short == Max(Min(w, h), 1)
        cx2 == 2 * x + w
        cy2 == 2 * y + h
    IN  IF /\ 5 * area >= img_area
           /\ 2 * long < 7 * short
           /\ (x <= EDGE_MARGIN \/ (x + w) >= (img_w - EDGE_MARGIN))
           /\ 5 * h > 2 * img_h
        THEN <<"main_wall", 95>>
        ELSE IF /\ 25 * area > 3 * img_area
                /\ long < 4 * short
                /\ 3 * img_w < 10 * cx2
                /\ 10 * cx2 < 17 * img_w
                /\ 2 * cy2 < 3 * img_h
                /\ 10 * h > 3 * img_h
        THEN <<"accent_wall", 75>>
        ELSE IF 25 * area < 2 * img_area
        THEN <<"rejected", 0>>
        ELSE <<"background", 0>>

\* classify_wall_advanced: <<wall_type, score>>
classify_wall_advanced(mask, bbox, image_shape) ==
    LET x == bbox[1]
        y == bbox[2]
        w == bbox[3]
        h == bbox[4]
        img_h == image_shape[1]
        img_w == image_shape[2]
        \* area_ratio = (w*h)/(img_w*img_h), compared by cross-multiplication
        area == w * h
        img_area == img_w * img_h
        \* aspect_ratio = max(w,h)/max(min(w,h),1)
        long == Max(w, h)
        short == Max(Min(w, h), 1)
        \* position_x = (x + w/2)/img_w = (2x+w)/(2 img_w); position_y alike
        cx2 == 2 * x + w
        cy2 == 2 * y + h
        touches_left == x <= EDGE_MARGIN
        touches_right == (x + w) >= (img_w - EDGE_MARGIN)
    IN  IF /\ 5 * area > img_area                    \* area_ratio > 0.20
           /\ 2 * long < 7 * short                   \* aspect_ratio < 3.5
           /\ (touches_left \/ touches_right)
           /\ 5 * h > 2 * img_h                      \* h > img_h * 0.4
        THEN <<"main_wall", 95>>
        ELSE IF /\ 25 * area > 3 * img_area          \* area_ratio > 0.12
                /\ long < 4 * short                  \* aspect_ratio < 4
                /\ 3 * img_w < 10 * cx2              \* 0.15 < position_x
                /\ 10 * cx2 < 17 * img_w             \* position_x < 0.85
                /\ 2 * cy2 < 3 * img_h               \* position_y < 0.75
                /\ 10 * h > 3 * img_h                \* h > img_h * 0.3
        THEN <<"accent_wall", 75>>
        ELSE IF 25 * area < 2 * img_area             \* area_ratio < 0.08
        THEN <<"rejected", 0>>
        ELSE <<"background", 0>>

\* WallSegment dataclass
WallSegment(mask, area, bbox, confidence, wall_type) ==
    [mask |-> mask, area |-> area, bbox |-> bbox,
     confidence |-> confidence, wall_type |-> wall_type]

\* A mask is held by what the code reads of it: its shape, its number of set
\* pixels (mask.sum()) and `up`, the number of pixels that cv2.resize to the
\* original resolution followed by the > 127 threshold leaves set.
Mask(shape, count, up) == [shape |-> shape, count |-> count, up |-> up]

\* A mutation of the retention test: background proposals are retained too.
RetainedAny(wall_score) == wall_score >= 0

\* detect_walls_improved, the retention test `if wall_score >= 0.5`
Retained(wall_score) == wall_score >= SCORE_THRESHOLD

\* detect_walls_improved, the body of the loop over the oracle's masks: the
\* wall segments with this proposal's segment appended, or unchanged when the
\* proposal is skipped (bbox shorter than 4, an exception, score below 0.5).
\* mask_data.raises stands for a proposal whose processing raises (a missing
\* key, a stability score float() rejects): the except clause skips it.
ProcessMask(wall_segments, mask_data, processed_shape) ==
    LET mask == mask_data.segmentation
        bbox_raw == mask_data.bbox
    IN  IF Len(bbox_raw) < 4 THEN wall_segments
        ELSE IF mask_data.raises THEN wall_segments
        ELSE LET bbox == SubSeq(bbox_raw, 1, 4)
                 area == mask.count
                 confidence == mask_data.stability_score
                 cls == classify_wall_advanced(mask, bbox, processed_shape)
             IN  IF Retained(cls[2])
                 THEN Append(wall_segments,
                             WallSegment(mask, area, bbox, confidence * cls[2], cls[1]))
                 ELSE wall_segments

RECURSIVE ProcessMasksAbortOnError(_, _, _)
\* A mutation of the loop: a proposal whose processing raises ends the batch.
ProcessMasksAbortOnError(wall_segments, masks, processed_shape) ==
    IF masks = <<>> THEN wall_segments
    ELSE IF Head(masks).raises THEN wall_segments
    ELSE ProcessMasksAbortOnError(
             ProcessMask(wall_segments, Head(masks), processed_shape),
             Tail(masks), processed_shape)

RECURSIVE ProcessMasks(_, _, _)
ProcessMasks(wall_segments, masks, processed_shape) ==
    IF masks = <<>> THEN wall_segments
    ELSE ProcessMasks(ProcessMask(wall_segments, Head(masks), processed_shape),
                      Tail(masks), processed_shape)

\* A mutation of the sort key: the type priority is left out.
SortKeyAreaOnly(seg) == <<1, seg.area * seg.confidence>>

\* the sort key of detect_walls_improved: (type priority, area * confidence)
SortKey(seg) ==
    <<IF seg.wall_type = "main_wall" THEN 3
      ELSE IF seg.wall_type = "accent_wall" THEN 2 ELSE 1,
      seg.area * seg.confidence>>

\* tuple comparison k1 < k2
KeyLess(k1, k2) == k1[1] < k2[1] \/ (k1[1] = k2[1] /\ k1[2] < k2[2])

\* list.sort(key, reverse=True): descending and stable.  seg goes before the
\* first element with a smaller key, so it stays behind earlier equal keys.
InsertByKey(sorted, seg) ==
    LET smaller == {i \in 1..Len(sorted) : KeyLess(SortKey(sorted[i]), SortKey(seg))}
        at == IF smaller = {} THEN Len(sorted) + 1
              ELSE CHOOSE i \in smaller : \A j \in smaller : i <= j
    IN  SubSeq(sorted, 1, at - 1) \o <<seg>> \o SubSeq(sorted, at, Len(sorted))

RECURSIVE SortFrom(_, _)
SortFrom(sorted, rest) ==
    IF rest = <<>> THEN sorted
    ELSE SortFrom(InsertByKey(sorted, Head(rest)), Tail(rest))

\* wall_segments.sort(key=..., reverse=True)
SortByImportance(wall_segments) == SortFrom(<<>>, wall_segments)

\* The oracle's answer to generate(): an error, or a list of proposals.
OracleRaised == [raised |-> TRUE, masks |-> <<>>]

OracleMasks(masks) == [raised |-> FALSE, masks |-> masks]

\* detect_walls_improved: (wall_segments, scale_factor).  An error of
\* mask_generator.generate is caught and answered with ([], scale_factor).
detect_walls_improved(image_shape, oracle) ==
    LET pre == PreprocessImage(image_shape)
    IN  IF oracle.raised
        THEN [wall_segments |-> <<>>, scale_factor |-> pre.scale_factor]
        ELSE [wall_segments |->
                  SortByImportance(ProcessMasks(<<>>, oracle.masks, pre.shape)),
              scale_factor |-> pre.scale_factor]

\* int(v / scale_factor)
Unscale(v, scale_factor) == (v * scale_factor[2]) \div scale_factor[1]

\* A mutation of the resized segment: the area is the one before the resize.
ResizedSegmentKeepsArea(segment, original_shape, scale_factor) ==
    WallSegment(Mask(<<original_shape[1], original_shape[2]>>,
                     segment.mask.up, segment.mask.up),
                segment.area,
                <<Unscale(segment.bbox[1], scale_factor), Unscale(segment.bbox[2], scale_factor),
                  Unscale(segment.bbox[3], scale_factor), Unscale(segment.bbox[4], scale_factor)>>,
                segment.confidence, segment.wall_type)

\* resize_masks_to_original, the body of the loop: the resized segment
ResizedSegment(segment, original_shape, scale_factor) ==
    LET resized_mask == Mask(<<original_shape[1], original_shape[2]>>,
                             segment.mask.up, segment.mask.up)
        new_area == resized_mask.count
        new_bbox == <<Unscale(segment.bbox[1], scale_factor),
                      Unscale(segment.bbox[2], scale_factor),
                      Unscale(segment.bbox[3], scale_factor),
                      Unscale(segment.bbox[4], scale_factor)>>
    IN  WallSegment(resized_mask, new_area, new_bbox,
                    segment.confidence, segment.wall_type)

\* cv2.resize raises on a source without pixels (a mask of shape 0 x 0).
ResizeRaises(segment) == segment.mask.shape[1] = 0 \/ segment.mask.shape[2] = 0

RECURSIVE ResizeFrom(_, _, _, _)
\* resize_masks_to_original, the loop: a segment whose resize raises is
\* skipped by the except clause, one whose new area is 0 is not appended.
ResizeFrom(resized_segments, rest, original_shape, scale_factor) ==
    IF rest = <<>> THEN resized_segments
    ELSE IF ResizeRaises(Head(rest))
    THEN ResizeFrom(resized_segments, Tail(rest), original_shape, scale_factor)
    ELSE LET r == ResizedSegment(Head(rest), original_shape, scale_factor)
         IN  ResizeFrom(IF r.area > 0 THEN Append(resized_segments, r)
                                      ELSE resized_segments,
                        Tail(rest), original_shape, scale_factor)

\* resize_masks_to_original
resize_masks_to_original(wall_segments, original_shape, scale_factor) ==
    IF scale_factor[1] = scale_factor[2] THEN wall_segments
    ELSE ResizeFrom(<<>>, wall_segments, original_shape, scale_factor)

\* One oracle proposal (an element of the list generate() returns)
Proposal(mask, bbox, stability_score) ==
    [segmentation |-> mask, bbox |-> bbox,
     stability_score |-> stability_score, raises |-> FALSE]

-----------------------------------------------------------------------------
(* app.py: the images of the requests *)

\* The images a client sends: two that decode and one that does not.
Images == {"imgA", "imgB", "imgBad"}

\* image.shape after cv2.imdecode, <<height, width>>; imgBad decodes to None.
ImageShape(image) ==
    IF image = "imgA" THEN <<800, 1000>> ELSE <<1500, 2000>>

Decodable(image) == image # "imgBad"

\* get_image_hash: md5(image_data)[:16]; one distinct key per image here.
get_image_hash(image) ==
    IF image = "imgA" THEN "a3f1"
    ELSE IF image = "imgB" THEN "b27c" ELSE "c90e"

Hashes == {get_image_hash(i) : i \in Images}

\* A pixel buffer is held as its shape, the image it was decoded from and the
\* paint layers blended onto it, in the order they were applied.
Buffer(image) == [shape |-> ImageShape(image), base |-> image, layers |-> <<>>]

\* Proposals of the oracle on imgA (working shape 800 x 1000, scale 1.0)
PMainA == Proposal(Mask(<<800, 1000>>, 240000, 240000), <<0, 0, 500, 500>>, 9)

PAccentA == Proposal(Mask(<<800, 1000>>, 150000, 150000), <<300, 100, 400, 400>>, 5)

PBackgroundA == Proposal(Mask(<<800, 1000>>, 90000, 90000), <<100, 600, 500, 200>>, 9)

PSmallA == Proposal(Mask(<<800, 1000>>, 2000, 2000), <<10, 10, 50, 50>>, 10)

\* Proposals of the oracle on imgB (working shape 768 x 1024, scale 1024/2000);
\* PEmptyB has an empty mask, which is still empty after the resize.
PMainB == Proposal(Mask(<<768, 1024>>, 250000, 953000), <<0, 0, 512, 512>>, 9)

PEmptyB == Proposal(Mask(<<768, 1024>>, 0, 0), <<300, 100, 400, 400>>, 10)

\* What mask_generator.generate may answer for an image
OracleOutcomes(image) ==
    IF image = "imgA"
    THEN {OracleRaised, OracleMasks(<<>>), OracleMasks(<<PSmallA>>),
          OracleMasks(<<PMainA>>), OracleMasks(<<PAccentA, PMainA>>),
          OracleMasks(<<PBackgroundA, PAccentA>>)}
    ELSE {OracleRaised, OracleMasks(<<>>), OracleMasks(<<PEmptyB>>),
          OracleMasks(<<PEmptyB, PMainB>>)}

-----------------------------------------------------------------------------
(* app.py: requests, responses and the handlers' local state *)

\* The worker threads of app.run(threaded=True)
Workers == {"w1", "w2"}

\* The number of requests of a run
MaxRequests == 3

\* A request body without the field, or no body at all
NoImage == "none"

NoHash == ""

\* The default color of paint_instant, '#FF5733'
DefaultColor == <<255, 87, 51>>

\* The default opacity of paint_instant, 0.7, in hundredths
DefaultOpacity == 70

\* color is the request's color after the hex parse of lines 326-336 (an RGB
\* triple), opacity the request's opacity in hundredths.
NoReq ==
    [kind |-> "none", body |-> FALSE, image |-> NoImage, image_hash |-> NoHash,
     wall_ids |-> <<>>, main_walls_only |-> FALSE,
     color |-> DefaultColor, opacity |-> DefaultOpacity]

DetectReq(image) == [NoReq EXCEPT !.kind = "detect", !.body = TRUE, !.image = image]

PaintReq(image_hash, wall_ids, main_walls_only) ==
    [NoReq EXCEPT !.kind = "paint", !.body = TRUE, !.image_hash = image_hash,
                  !.wall_ids = wall_ids, !.main_walls_only = main_walls_only]

VisualizeReq(image_hash) ==
    [NoReq EXCEPT !.kind = "visualize", !.body = TRUE, !.image_hash = image_hash]

\* The handler's locals that live across statements: the image hash, the
\* cache entry built by detect (a sequence of zero or one entry), and
\* cache_size of clear_cache.
NoLoc == [image_hash |-> NoHash, pending |-> <<>>, cache_size |-> 0]

\* The JSON response and its HTTP status
NoResp ==
    [kind |-> "none", status |-> 0, success |-> FALSE, error |-> "",
     wall_info |-> <<>>, walls |-> 0, from_cache |-> FALSE,
     result |-> <<>>, cleared |-> 0]

Failure(kind, status, error) ==
    [NoResp EXCEPT !.kind = kind, !.status = status, !.error = error]

\* What a request did, recorded for the properties: whether it stored a cache
\* entry, whether it called the oracle and how that ended, whether it began
\* after an answered detect of the same image, what its lookup of the cache
\* gave, and how many entries its clear removed.
NoHist ==
    [wrote |-> FALSE, oracle |-> "none", after_answer |-> FALSE,
     lookup |-> "none", removed |-> 0]

\* wall_info of detect_walls_only: one summary per resized segment.
\* area_percentage is the rational <<area * 100, height * width>>.
WallInfo(resized_segments, image_shape) ==
    [i \in 1..Len(resized_segments) |->
        [id |-> i - 1,
         area |-> resized_segments[i].area,
         confidence |-> resized_segments[i].confidence,
         wall_type |-> resized_segments[i].wall_type,
         bbox |-> resized_segments[i].bbox,
         area_percentage |-> <<resized_segments[i].area * 100,
                               image_shape[1] * image_shape[2]>>]]

\* A mutation of the entry: the summaries describe the segments before the resize.
CacheEntrySummaryFirst(image, wall_segments, scale_factor) ==
    [wall_segments |->
         resize_masks_to_original(wall_segments, ImageShape(image), scale_factor),
     original_image |-> Buffer(image),
     wall_info |-> WallInfo(wall_segments, ImageShape(image)),
     image_size |-> [width |-> ImageShape(image)[2], height |-> ImageShape(image)[1]]]

\* detect_walls_only, from the resize to the value stored in mask_cache
\* (timestamp and detection_time, which no handler reads back, are left out).
CacheEntry(image, wall_segments, scale_factor) ==
    LET resized_segments ==
            resize_masks_to_original(wall_segments, ImageShape(image), scale_factor)
    IN  [wall_segments |-> resized_segments,
         original_image |-> Buffer(image),
         wall_info |-> WallInfo(resized_segments, ImageShape(image)),
         image_size |-> [width |-> ImageShape(image)[2],
                         height |-> ImageShape(image)[1]]]

\* `k in mask_cache`
InCache(k) == k \in DOMAIN mask_cache

\* Where a detect may raise outside the per-segment try blocks
Stages == {"none", "detect", "rescale", "summary"}

\* The worker's request ends: its response is set and its locals are dropped.
Finish(w, response) ==
    /\ resp' = [resp EXCEPT ![w] = response]
    /\ pc' = [pc EXCEPT ![w] = "idle"]
    /\ loc' = [loc EXCEPT ![w] = NoLoc]

\* A new request is taken by an idle worker.
Begin(w, request) ==
    /\ pc[w] = "idle"
    /\ started < MaxRequests
    /\ started' = started + 1
    /\ req' = [req EXCEPT ![w] = request]

-----------------------------------------------------------------------------
(* app.py: detect_walls_only *)

\* Lines 183-205: the checks of the request and the test
\* `image_hash in mask_cache`.
DetectLookup(w) ==
    \E image \in Images \cup {NoImage} :
        /\ Begin(w, DetectReq(image))
        /\ UNCHANGED <<visualizer, mask_cache, oracle_calls, answered>>
        /\ IF ~visualizer
           THEN /\ Finish(w, Failure("detect", 500, "SAM model not loaded"))
                /\ hist' = [hist EXCEPT ![w] = NoHist]
           ELSE IF image = NoImage
           THEN /\ Finish(w, Failure("detect", 400, "No image data provided"))
                /\ hist' = [hist EXCEPT ![w] = NoHist]
           ELSE LET image_hash == get_image_hash(image)
                IN  /\ resp' = [resp EXCEPT ![w] = NoResp]
                    /\ loc' = [loc EXCEPT ![w] = [NoLoc EXCEPT !.image_hash = image_hash]]
                    /\ hist' = [hist EXCEPT ![w] =
                                  [NoHist EXCEPT !.after_answer = answered[image_hash]]]
                    /\ pc' = [pc EXCEPT ![w] =
                                IF InCache(image_hash) THEN "detect_read" ELSE "detect_run"]

\* Lines 206-217: `cached_data = mask_cache[image_hash]` and the answer from
\* the cache.  The subscript raises KeyError when the key is gone, which the
\* handler's except clause (lines 284-290) answers with 500.
DetectRead(w) ==
    /\ pc[w] = "detect_read"
    /\ UNCHANGED <<visualizer, mask_cache, req, oracle_calls, answered, started>>
    /\ LET image_hash == loc[w].image_hash
       IN  IF InCache(image_hash)
           THEN LET cached_data == mask_cache[image_hash]
                IN  /\ Finish(w, [NoResp EXCEPT !.kind = "detect", !.status = 200,
                                     !.success = TRUE,
                                     !.wall_info = cached_data.wall_info,
                                     !.walls = Len(cached_data.wall_info),
                                     !.from_cache = TRUE])
                    /\ hist' = [hist EXCEPT ![w].lookup = "entry"]
           ELSE /\ Finish(w, Failure("detect", 500, "Detection failed: KeyError"))
                /\ hist' = [hist EXCEPT ![w].lookup = "keyerror"]

\* Lines 219-256 and 269-282: decode, detect_walls_improved, and then either
\* the entry to store, or the answer with no walls.  stage is where an
\* exception outside the per-segment try blocks is raised, if any: inside
\* detect_walls_improved before generate() is called, in the rescale or in
\* the summaries (both run only when wall_segments is not empty).
DetectRun(w) ==
    /\ pc[w] = "detect_run"
    /\ UNCHANGED <<visualizer, mask_cache, req, started>>
    /\ LET image == req[w].image
           image_hash == loc[w].image_hash
       IN  IF ~Decodable(image)
           THEN /\ Finish(w, Failure("detect", 400, "Could not decode image"))
                /\ UNCHANGED <<hist, oracle_calls, answered>>
           ELSE \E stage \in Stages, oracle \in OracleOutcomes(image) :
                  LET det == detect_walls_improved(ImageShape(image), oracle)
                      called == [hist EXCEPT ![w].oracle =
                                    IF oracle.raised THEN "raised" ELSE "returned"]
                  IN  IF stage = "detect"
                      THEN /\ Finish(w, Failure("detect", 500, "Detection failed"))
                           /\ UNCHANGED <<hist, oracle_calls, answered>>
                      ELSE /\ oracle_calls' = [oracle_calls EXCEPT ![image_hash] = @ + 1]
                           /\ hist' = called
                           /\ IF det.wall_segments # <<>>
                              THEN IF stage # "none"
                                   THEN /\ Finish(w, Failure("detect", 500, "Detection failed"))
                                        /\ UNCHANGED answered
                                   ELSE /\ loc' = [loc EXCEPT ![w].pending =
                                                     <<CacheEntry(image, det.wall_segments,
                                                                  det.scale_factor)>>]
                                        /\ pc' = [pc EXCEPT ![w] = "detect_store"]
                                        /\ UNCHANGED <<resp, answered>>
                              ELSE /\ stage = "none"
                                   /\ Finish(w, [NoResp EXCEPT !.kind = "detect",
                                                    !.status = 200, !.success = TRUE])
                                   /\ answered' = [answered EXCEPT ![image_hash] =
                                                      @ \/ ~oracle.raised]

\* A mutation of the store: building the response raises after the entry
\* has been stored.
DetectStoreThenFail(w) ==
    /\ pc[w] = "detect_store"
    /\ UNCHANGED <<visualizer, req, oracle_calls, answered, started>>
    /\ mask_cache' = (loc[w].image_hash :> loc[w].pending[1]) @@ mask_cache
    /\ hist' = [hist EXCEPT ![w].wrote = TRUE]
    /\ Finish(w, Failure("detect", 500, "Detection failed"))

\* A mutation of the store: an entry that is already there is kept
\* (mask_cache.setdefault).
DetectStoreIfAbsent(w) ==
    /\ pc[w] = "detect_store"
    /\ UNCHANGED <<visualizer, req, oracle_calls, started>>
    /\ LET image_hash == loc[w].image_hash
           entry == loc[w].pending[1]
       IN  /\ mask_cache' = mask_cache @@ (image_hash :> entry)
           /\ hist' = [hist EXCEPT ![w].wrote = TRUE]
           /\ answered' = [answered EXCEPT ![image_hash] = TRUE]
           /\ Finish(w, [NoResp EXCEPT !.kind = "detect", !.status = 200,
                            !.success = TRUE, !.wall_info = entry.wall_info,
                            !.walls = Len(entry.wall_info)])

\* Lines 258-282: `mask_cache[image_hash] = {...}` and the answer
DetectStore(w) ==
    /\ pc[w] = "detect_store"
    /\ UNCHANGED <<visualizer, req, oracle_calls, started>>
    /\ LET image_hash == loc[w].image_hash
           entry == loc[w].pending[1]
       IN  /\ mask_cache' = (image_hash :> entry) @@ mask_cache
           /\ hist' = [hist EXCEPT ![w].wrote = TRUE]
           /\ answered' = [answered EXCEPT ![image_hash] = TRUE]
           /\ Finish(w, [NoResp EXCEPT !.kind = "detect", !.status = 200,
                            !.success = TRUE, !.wall_info = entry.wall_info,
                            !.walls = Len(entry.wall_info)])

-----------------------------------------------------------------------------
(* improved_sam_visualizer.py: apply_smart_paint, create_mask_visualization *)

\* A mutation of the effective opacity: every wall type is scaled down.
WallOpacityAllScaled(wall_type, opacity) == opacity * 9

\* apply_smart_paint, `Adjust opacity by wall type`: the effective opacity in
\* thousandths for a requested opacity in hundredths.
WallOpacity(wall_type, opacity) ==
    IF wall_type = "accent_wall" THEN opacity * 9
    ELSE IF wall_type = "background" THEN opacity * 6
    ELSE opacity * 10

RECURSIVE PaintFrom(_, _, _, _)
\* apply_smart_paint, the loop over walls_to_paint: a segment whose mask has
\* another shape than the image, or no pixel, is skipped; any other is
\* blended onto the result.
PaintFrom(result_image, walls_to_paint, color, opacity) ==
    IF walls_to_paint = <<>> THEN result_image
    ELSE LET wall_segment == Head(walls_to_paint)
             painted ==
                 IF wall_segment.mask.shape # result_image.shape THEN result_image
                 ELSE IF wall_segment.mask.count = 0 THEN result_image
                 ELSE [result_image EXCEPT !.layers = Append(@,
                          [mask |-> wall_segment.mask, color |-> color,
                           wall_type |-> wall_segment.wall_type,
                           opacity |-> WallOpacity(wall_segment.wall_type, opacity)])]
         IN  PaintFrom(painted, Tail(walls_to_paint), color, opacity)

\* [w for w in wall_segments if w.wall_type == "main_wall"]
MainWalls(wall_segments) ==
    SelectSeq(wall_segments, LAMBDA seg : seg.wall_type = "main_wall")

\* apply_smart_paint
apply_smart_paint(image, wall_segments, color, opacity, paint_main_walls_only) ==
    IF wall_segments = <<>> THEN image
    ELSE LET walls_to_paint == IF paint_main_walls_only THEN MainWalls(wall_segments)
                                                         ELSE wall_segments
         IN  PaintFrom(image, walls_to_paint, color, opacity)

\* The palette of create_mask_visualization
Palette == <<<<255, 0, 0>>, <<0, 255, 0>>, <<0, 0, 255>>, <<255, 255, 0>>, <<255, 0, 255>>>>

\* create_mask_visualization: the first five masks, each blended at 50 % in
\* its palette color; a mask of another shape is resized to the image first.
create_mask_visualization(image, wall_segments) ==
    LET shown == SubSeq(wall_segments, 1, Min(5, Len(wall_segments)))
    IN  [image EXCEPT !.layers = @ \o
            [i \in 1..Len(shown) |->
                [mask |-> IF shown[i].mask.shape # image.shape
                          THEN Mask(image.shape, shown[i].mask.up, shown[i].mask.up)
                          ELSE shown[i].mask,
                 color |-> Palette[((i - 1) % 5) + 1],
                 opacity |-> 500]]]

-----------------------------------------------------------------------------
(* app.py: paint_instant *)

\* wall_segments[i] of Python for a list held as a 1-based sequence: a
\* negative i counts from the end; outside -len..len-1 it raises IndexError.
IndexRaises(wall_segments, i) == i < 0 - Len(wall_segments)

ListItem(wall_segments, i) ==
    IF i >= 0 THEN wall_segments[i + 1] ELSE wall_segments[Len(wall_segments) + i + 1]

\* [wall_segments[i] for i in selected_wall_ids if i < len(wall_segments)]
SelectedWalls(wall_segments, selected_wall_ids) ==
    LET kept == SelectSeq(selected_wall_ids, LAMBDA i : i < Len(wall_segments))
        raised == \E n \in 1..Len(kept) : IndexRaises(wall_segments, kept[n])
    IN  [raised |-> raised,
         walls |-> IF raised THEN <<>>
                   ELSE [n \in 1..Len(kept) |-> ListItem(wall_segments, kept[n])]]

\* Lines 313-380 of paint_instant, after `cached_data = mask_cache[image_hash]`
PaintResponse(cached_data, request) ==
    LET image == cached_data.original_image
        wall_segments == cached_data.wall_segments
        selected == IF request.wall_ids # <<>>
                    THEN SelectedWalls(wall_segments, request.wall_ids)
                    ELSE [raised |-> FALSE, walls |-> wall_segments]
    IN  IF selected.raised
        THEN Failure("paint", 500, "Painting failed: IndexError")
        ELSE IF selected.walls = <<>>
        THEN Failure("paint", 400, "No valid walls to paint")
        ELSE [NoResp EXCEPT !.kind = "paint", !.status = 200, !.success = TRUE,
                 !.result = <<apply_smart_paint(image, selected.walls, request.color,
                                                request.opacity, request.main_walls_only)>>,
                 !.walls = Len(selected.walls),
                 !.from_cache = TRUE]

\* The wall_ids and mainWallsOnly of the paint requests
PaintChoices ==
    {<<<<>>, FALSE>>, <<<<>>, TRUE>>, <<<<1, 0>>, FALSE>>, <<<<2>>, FALSE>>,
     <<<<-1>>, FALSE>>}

\* The image_hash of the paint and visualize requests
RequestHashes == {get_image_hash("imgA"), get_image_hash("imgB"), NoHash}

\* Lines 298-311: the checks of the request and the test
\* `not image_hash or image_hash not in mask_cache`.
PaintLookup(w) ==
    \E body \in BOOLEAN, image_hash \in RequestHashes, choice \in PaintChoices :
        /\ body \/ (image_hash = NoHash /\ choice = <<<<>>, FALSE>>)
        /\ Begin(w, [PaintReq(image_hash, choice[1], choice[2]) EXCEPT !.body = body])
        /\ UNCHANGED <<visualizer, mask_cache, oracle_calls, answered>>
        /\ IF ~visualizer
           THEN /\ Finish(w, Failure("paint", 500, "SAM model not loaded"))
                /\ hist' = [hist EXCEPT ![w] = NoHist]
           ELSE IF ~body
           THEN /\ Finish(w, Failure("paint", 400, "No data provided"))
                /\ hist' = [hist EXCEPT ![w] = NoHist]
           ELSE IF image_hash = NoHash \/ ~InCache(image_hash)
           THEN /\ Finish(w, Failure("paint", 400, "Image not found in cache"))
                /\ hist' = [hist EXCEPT ![w] = [NoHist EXCEPT !.lookup = "absent"]]
           ELSE /\ resp' = [resp EXCEPT ![w] = NoResp]
                /\ loc' = [loc EXCEPT ![w] = [NoLoc EXCEPT !.image_hash = image_hash]]
                /\ hist' = [hist EXCEPT ![w] = NoHist]
                /\ pc' = [pc EXCEPT ![w] = "paint_read"]

\* A mutation of the paint: the painted image replaces the cached original,
\* so that the next color is blended onto the last.
PaintReadKeepsResult(w) ==
    /\ pc[w] = "paint_read"
    /\ InCache(loc[w].image_hash)
    /\ UNCHANGED <<visualizer, req, oracle_calls, answered, started>>
    /\ LET response == PaintResponse(mask_cache[loc[w].image_hash], req[w])
       IN  /\ mask_cache' =
                 IF response.success
                 THEN [mask_cache EXCEPT ![loc[w].image_hash].original_image =
                                             response.result[1]]
                 ELSE mask_cache
           /\ Finish(w, response)
           /\ hist' = [hist EXCEPT ![w].lookup = "entry"]

\* Lines 313-380: `cached_data = mask_cache[image_hash]` (KeyError when the
\* key is gone, answered by the except clause), the filter, the paint on
\* image.copy() and the answer.
PaintRead(w) ==
    /\ pc[w] = "paint_read"
    /\ UNCHANGED <<visualizer, mask_cache, req, oracle_calls, answered, started>>
    /\ LET image_hash == loc[w].image_hash
       IN  IF InCache(image_hash)
           THEN /\ Finish(w, PaintResponse(mask_cache[image_hash], req[w]))
                /\ hist' = [hist EXCEPT ![w].lookup = "entry"]
           ELSE /\ Finish(w, Failure("paint", 500, "Painting failed: KeyError"))
                /\ hist' = [hist EXCEPT ![w].lookup = "keyerror"]

-----------------------------------------------------------------------------
(* app.py: visualize_masks *)

\* Lines 388-395 and 413-421: the checks of the request and the test
\* `image_hash and image_hash in mask_cache`.  Without a body, data.get
\* raises and the except clause answers 500.
VisLookup(w) ==
    \E body \in BOOLEAN, image_hash \in RequestHashes :
        /\ body \/ image_hash = NoHash
        /\ Begin(w, [VisualizeReq(image_hash) EXCEPT !.body = body])
        /\ UNCHANGED <<visualizer, mask_cache, oracle_calls, answered>>
        /\ IF ~visualizer
           THEN /\ Finish(w, Failure("visualize", 500, "SAM model not loaded"))
                /\ hist' = [hist EXCEPT ![w] = NoHist]
           ELSE IF ~body
           THEN /\ Finish(w, Failure("visualize", 500, "AttributeError"))
                /\ hist' = [hist EXCEPT ![w] = NoHist]
           ELSE IF image_hash = NoHash \/ ~InCache(image_hash)
           THEN /\ Finish(w, Failure("visualize", 400, "Image not found in cache"))
                /\ hist' = [hist EXCEPT ![w] = [NoHist EXCEPT !.lookup = "absent"]]
           ELSE /\ resp' = [resp EXCEPT ![w] = NoResp]
                /\ loc' = [loc EXCEPT ![w] = [NoLoc EXCEPT !.image_hash = image_hash]]
                /\ hist' = [hist EXCEPT ![w] = NoHist]
                /\ pc' = [pc EXCEPT ![w] = "vis_read"]

\* Lines 396-411: `cached_data = mask_cache[image_hash]` (KeyError when the
\* key is gone), the visualization and the answer.
VisRead(w) ==
    /\ pc[w] = "vis_read"
    /\ UNCHANGED <<visualizer, mask_cache, req, oracle_calls, answered, started>>
    /\ LET image_hash == loc[w].image_hash
       IN  IF InCache(image_hash)
           THEN LET cached_data == mask_cache[image_hash]
                IN  /\ Finish(w, [NoResp EXCEPT !.kind = "visualize", !.status = 200,
                                     !.success = TRUE,
                                     !.result = <<create_mask_visualization(
                                                    cached_data.original_image,
                                                    cached_data.wall_segments)>>,
                                     !.walls = Len(cached_data.wall_segments),
                                     !.from_cache = TRUE])
                    /\ hist' = [hist EXCEPT ![w].lookup = "entry"]
           ELSE /\ Finish(w, Failure("visualize", 500, "KeyError"))
                /\ hist' = [hist EXCEPT ![w].lookup = "keyerror"]

-----------------------------------------------------------------------------
(* app.py: clear_cache *)

\* Line 430: `cache_size = len(mask_cache)`
ClearLen(w) ==
    /\ Begin(w, [NoReq EXCEPT !.kind = "clear"])
    /\ UNCHANGED <<visualizer, mask_cache, oracle_calls, answered>>
    /\ resp' = [resp EXCEPT ![w] = NoResp]
    /\ hist' = [hist EXCEPT ![w] = NoHist]
    /\ loc' = [loc EXCEPT ![w] = [NoLoc EXCEPT !.cache_size = Cardinality(DOMAIN mask_cache)]]
    /\ pc' = [pc EXCEPT ![w] = "clear_rebind"]

\* Lines 431-437: `mask_cache = {}` and the answer
ClearRebind(w) ==
    /\ pc[w] = "clear_rebind"
    /\ UNCHANGED <<visualizer, req, started>>
    /\ mask_cache' = <<>>
    /\ oracle_calls' = [k \in Hashes |-> 0]
    /\ answered' = [k \in Hashes |-> FALSE]
    /\ hist' = [hist EXCEPT ![w].removed = Cardinality(DOMAIN mask_cache)]
    /\ Finish(w, [NoResp EXCEPT !.kind = "clear", !.status = 200, !.success = TRUE,
                     !.cleared = loc[w].cache_size])

-----------------------------------------------------------------------------
(* The server *)

harnessVars == <<cls_in, cls_out, det_in, det_out, bat_in, bat_out, px_in, px_out>>

NoClassifyInput == [bbox |-> <<0, 0, 0, 0>>, image_shape |-> <<1, 1>>]

NoBatchInput == [image |-> NoImage, proposals |-> <<>>]

\* Each stage of the batch harness holds zero or one result.
NoBatchOutput == [detected |-> <<>>, resized |-> <<>>, painted |-> <<>>]

BatchIdle ==
    /\ bat_in = NoBatchInput
    /\ bat_out = NoBatchOutput

PaintIdle ==
    /\ px_in = <<>>
    /\ px_out = <<>>

HarnessIdle ==
    /\ cls_in = NoClassifyInput
    /\ cls_out = <<>>
    /\ det_in = <<>>
    /\ det_out = <<>>
    /\ BatchIdle
    /\ PaintIdle

ServerInit ==
    /\ visualizer \in BOOLEAN
    /\ mask_cache = <<>>
    /\ pc = [w \in Workers |-> "idle"]
    /\ req = [w \in Workers |-> NoReq]
    /\ loc = [w \in Workers |-> NoLoc]
    /\ resp = [w \in Workers |-> NoResp]
    /\ hist = [w \in Workers |-> NoHist]
    /\ oracle_calls = [k \in Hashes |-> 0]
    /\ answered = [k \in Hashes |-> FALSE]
    /\ started = 0

Init == ServerInit /\ HarnessIdle

Next ==
    \E w \in Workers :
        \/ DetectLookup(w) /\ UNCHANGED harnessVars
        \/ DetectRead(w) /\ UNCHANGED harnessVars
        \/ DetectRun(w) /\ UNCHANGED harnessVars
        \/ DetectStore(w) /\ UNCHANGED harnessVars
        \/ PaintLookup(w) /\ UNCHANGED harnessVars
        \/ PaintRead(w) /\ UNCHANGED harnessVars
        \/ VisLookup(w) /\ UNCHANGED harnessVars
        \/ VisRead(w) /\ UNCHANGED harnessVars
        \/ ClearLen(w) /\ UNCHANGED harnessVars
        \/ ClearRebind(w) /\ UNCHANGED harnessVars

Spec == Init /\ [][Next]_vars

-----------------------------------------------------------------------------
(* The classifier on its own: every bounding box of a grid, on one image *)

\* The shape of the image the classifier is run on
ClsHeight == 100

ClsWidth == 200

ClsXs == {0, 30, 31, 40, 100}

ClsYs == {0, 20, 50}

ClsWs == {10, 20, 40, 60, 80, 100, 120, 140, 160, 170, 200}

ClsHs == {10, 20, 30, 31, 40, 41, 50, 60, 80, 100}

ClassifyInputs ==
    {[bbox |-> <<x, y, w, h>>, image_shape |-> <<ClsHeight, ClsWidth>>] :
        x \in ClsXs, y \in ClsYs, w \in ClsWs, h \in ClsHs}

ClassifyInit ==
    /\ ServerInit
    /\ visualizer = TRUE
    /\ cls_in \in {i \in ClassifyInputs : /\ i.bbox[1] + i.bbox[3] <= ClsWidth
                                          /\ i.bbox[2] + i.bbox[4] <= ClsHeight}
    /\ cls_out = <<>>
    /\ det_in = <<>>
    /\ det_out = <<>>
    /\ BatchIdle
    /\ PaintIdle

\* classify_wall_advanced is called on the input
Classify ==
    /\ cls_out = <<>>
    /\ cls_out' = <<classify_wall_advanced(
                       Mask(cls_in.image_shape, cls_in.bbox[3] * cls_in.bbox[4], 0),
                       cls_in.bbox, cls_in.image_shape)>>
    /\ UNCHANGED <<cls_in, det_in, det_out, bat_in, bat_out, px_in, px_out>>
    /\ UNCHANGED serverVars

SpecClassify == ClassifyInit /\ [][Classify]_vars

-----------------------------------------------------------------------------
(* detect_walls_improved on its own: every list of proposals of a pool *)

\* The longest list of proposals
MaxProposals == 3

\* More proposals on imgA: a second main wall at the right edge, a main wall
\* with the sort key of PMainA, a second accent wall, a proposal whose bbox
\* has three numbers and one whose processing raises.
PMainRightA == Proposal(Mask(<<800, 1000>>, 100000, 100000), <<600, 0, 400, 700>>, 10)

PMainTwinA == Proposal(Mask(<<800, 1000>>, 240000, 240000), <<0, 100, 500, 500>>, 9)

PAccentWideA == Proposal(Mask(<<800, 1000>>, 180000, 180000), <<200, 50, 500, 400>>, 9)

PShortBboxA == Proposal(Mask(<<800, 1000>>, 240000, 240000), <<0, 0, 500>>, 9)

PRaisesA == [Proposal(Mask(<<800, 1000>>, 240000, 240000), <<0, 0, 500, 500>>, 9)
                EXCEPT !.raises = TRUE]

ProposalPool ==
    {PMainA, PMainRightA, PMainTwinA, PAccentA, PAccentWideA, PBackgroundA,
     PSmallA, PShortBboxA, PRaisesA}

DetectInit ==
    /\ ServerInit
    /\ visualizer = TRUE
    /\ cls_in = NoClassifyInput
    /\ cls_out = <<>>
    /\ det_in = <<>>
    /\ det_out = <<>>
    /\ BatchIdle
    /\ PaintIdle

\* The oracle's list grows by one proposal.
AddProposal ==
    /\ det_out = <<>>
    /\ Len(det_in) < MaxProposals
    /\ \E p \in ProposalPool : det_in' = Append(det_in, p)
    /\ UNCHANGED <<cls_in, cls_out, det_out, bat_in, bat_out, px_in, px_out>>
    /\ UNCHANGED serverVars

\* detect_walls_improved is called and the oracle answers det_in.
DetectHarness ==
    /\ det_out = <<>>
    /\ det_out' = <<detect_walls_improved(ImageShape("imgA"), OracleMasks(det_in))>>
    /\ UNCHANGED <<cls_in, cls_out, det_in, bat_in, bat_out, px_in, px_out>>
    /\ UNCHANGED serverVars

SpecDetect == DetectInit /\ [][AddProposal \/ DetectHarness]_vars

-----------------------------------------------------------------------------
(* apply_smart_paint on pixels: what a buffer's paint layers do to the image *)

\* cv2.cvtColor with COLOR_BGR2RGB, and with COLOR_RGB2BGR, on one pixel
SwapChannels(pixel) == <<pixel[3], pixel[2], pixel[1]>>

\* cv2.cvtColor with COLOR_RGB2GRAY on one 8-bit pixel (OpenCV's fixed-point
\* weights of 0.299, 0.587 and 0.114, rounded to nearest)
GrayOf(rgb) == (rgb[1] * 4899 + rgb[2] * 9617 + rgb[3] * 1868 + 8192) \div 16384

RECURSIVE SumGray(_, _)
\* The sum behind np.mean(wall_gray): the gray levels of the pixels at `at`
SumGray(pixels, at) ==
    IF at = {} THEN 0
    ELSE LET i == CHOOSE i \in at : TRUE
         IN  GrayOf(pixels[i]) + SumGray(pixels, at \ {i})

\* brightness_factor = np.clip(avg_brightness / 128.0, 0.7, 1.3), as the
\* rational <<num, den>>
BrightnessFactor(pixels, at) ==
    LET total == SumGray(pixels, at)
        n == Cardinality(at)
    IN  IF 10 * total < 7 * 128 * n THEN <<7, 10>>
        ELSE IF 10 * total > 13 * 128 * n THEN <<13, 10>>
        ELSE <<total, 128 * n>>

\* One channel of (wall_pixels * (1.0 - wall_opacity) + adjusted_color *
\* wall_opacity).astype(np.uint8), where adjusted_color is
\* np.clip(color_rgb * brightness_factor, 0, 255): the blend is computed over
\* the common denominator 1000 * factor[2] and truncated.
BlendChannel(wall_pixel, color, factor, wall_opacity) ==
    LET adjusted_color == Min(color * factor[1], 255 * factor[2])
    IN  (wall_pixel * (1000 - wall_opacity) * factor[2] + adjusted_color * wall_opacity)
            \div (1000 * factor[2])

\* Lines 303-328 for one painted segment: wall_pixels are read from
\* result_image as it is when the segment's turn comes.
PaintLayer(result_image, layer) ==
    LET at == layer.mask.pixels
        factor == BrightnessFactor(result_image, at)
    IN  [i \in DOMAIN result_image |->
            IF i \in at
            THEN [c \in 1..3 |-> BlendChannel(result_image[i][c], layer.color[c],
                                              factor, layer.opacity)]
            ELSE result_image[i]]

RECURSIVE RenderFrom(_, _)
RenderFrom(result_image, layers) ==
    IF layers = <<>> THEN result_image
    ELSE RenderFrom(PaintLayer(result_image, Head(layers)), Tail(layers))

\* The RGB working copy of apply_smart_paint after the first n layers
RenderRGB(buffer, n) ==
    RenderFrom([i \in DOMAIN buffer.base |-> SwapChannels(buffer.base[i])],
               SubSeq(buffer.layers, 1, n))

\* The BGR image apply_smart_paint returns
Render(buffer) ==
    LET result_image == RenderRGB(buffer, Len(buffer.layers))
    IN  [i \in DOMAIN result_image |-> SwapChannels(result_image[i])]

\* A mask given pixel by pixel: the set of the positions it covers, numbered
\* row by row from 1
PixelMask(shape, pixels) ==
    [shape |-> shape, count |-> Cardinality(pixels), up |-> Cardinality(pixels),
     pixels |-> pixels]

-----------------------------------------------------------------------------
(* paint_instant on its own: every request of a grid, on cache entries whose *)
(* images and masks are given pixel by pixel                                *)

\* The most segments of a cache entry
MaxWalls == 2

\* The shape of the images: 2 x 2, the positions 1..4
PxShape == <<2, 2>>

\* Decoded images (BGR): a mid-gray one, whose brightness factor is 1.0 on
\* every mask, and one of four different pixels
PxFlat == [i \in 1..4 |-> <<128, 128, 128>>]

PxMixed == <<<<128, 128, 128>>, <<200, 80, 40>>, <<250, 250, 250>>, <<0, 0, 0>>>>

PxImages == {PxFlat, PxMixed}

PxBuffer(pixels) == [shape |-> PxShape, base |-> pixels, layers |-> <<>>]

\* Segments as detect leaves them in the cache: two main walls that overlap
\* at position 2, an accent wall that overlaps the second of them at
\* position 4, a main wall whose mask covers no pixel, and an accent wall
\* whose mask has another shape than the image
SegMain == WallSegment(PixelMask(PxShape, {1, 2}), 2, <<0, 0, 2, 1>>, 855, "main_wall")

SegMainRight == WallSegment(PixelMask(PxShape, {2, 4}), 2, <<1, 0, 1, 2>>, 760, "main_wall")

SegAccent == WallSegment(PixelMask(PxShape, {3, 4}), 2, <<0, 1, 2, 1>>, 675, "accent_wall")

SegEmpty == WallSegment(PixelMask(PxShape, {}), 0, <<0, 0, 2, 1>>, 855, "main_wall")

SegOtherShape == WallSegment(PixelMask(<<1, 2>>, {1}), 1, <<0, 0, 1, 1>>, 675, "accent_wall")

SegmentPool == {SegMain, SegMainRight, SegAccent, SegEmpty, SegOtherShape}

\* detect_walls_improved sorts main walls before accent walls, and
\* resize_masks_to_original keeps the order.
MainWallsFirst(wall_segments) ==
    \A i, j \in 1..Len(wall_segments) :
        i < j => ~(/\ wall_segments[i].wall_type = "accent_wall"
                   /\ wall_segments[j].wall_type = "main_wall")

\* The lists of different segments of the pool, in an order detect can leave
PxSegmentLists ==
    {l \in UNION {[1..n -> SegmentPool] : n \in 0..MaxWalls} :
        /\ MainWallsFirst(l)
        /\ \A i, j \in 1..Len(l) : i # j => l[i] # l[j]}

PxEntry(pixels, wall_segments) ==
    [wall_segments |-> wall_segments,
     original_image |-> PxBuffer(pixels),
     wall_info |-> WallInfo(wall_segments, PxShape),
     image_size |-> [width |-> PxShape[2], height |-> PxShape[1]]]

\* The selectedWallIds, colors and opacities (hundredths) of the requests
PxWallIds == {<<>>, <<0>>, <<1, 0>>, <<2>>, <<-1>>, <<-3>>}

PxColors == {<<255, 0, 0>>, <<10, 200, 60>>}

PxOpacities == {0, 70, 100}

PxRequests ==
    {[PaintReq("px", ids, main_walls_only) EXCEPT !.color = color, !.opacity = opacity] :
        ids \in PxWallIds, main_walls_only \in BOOLEAN,
        color \in PxColors, opacity \in PxOpacities}

PaintInit ==
    /\ ServerInit
    /\ visualizer = TRUE
    /\ cls_in = NoClassifyInput
    /\ cls_out = <<>>
    /\ det_in = <<>>
    /\ det_out = <<>>
    /\ BatchIdle
    /\ px_in \in {<<[cached_data |-> PxEntry(pixels, wall_segments), request |-> request]>> :
                     pixels \in PxImages, wall_segments \in PxSegmentLists,
                     request \in PxRequests}
    /\ px_out = <<>>

\* paint_instant answers the request from the cache entry.
PaintHarness ==
    /\ px_out = <<>>
    /\ px_out' = <<PaintResponse(px_in[1].cached_data, px_in[1].request)>>
    /\ UNCHANGED <<cls_in, cls_out, det_in, det_out, bat_in, bat_out, px_in>>
    /\ UNCHANGED serverVars

SpecPaint == PaintInit /\ [][PaintHarness]_vars

-----------------------------------------------------------------------------
(* One batch through detection, rescaling and painting: every list of      *)
(* proposals of a pool, on an image that is not scaled and on one that is  *)

\* More proposals on imgA: a main wall whose mask covers no pixel, and one
\* whose mask has another shape than the image
PEmptyA == Proposal(Mask(<<800, 1000>>, 0, 0), <<0, 0, 500, 500>>, 9)

POtherShapeA == Proposal(Mask(<<400, 500>>, 60000, 60000), <<0, 0, 500, 500>>, 9)

\* More proposals on imgB (working shape 768 x 1024): an accent wall, a
\* proposal whose processing raises, and a main wall whose mask is 0 x 0
PAccentB == Proposal(Mask(<<768, 1024>>, 150000, 572000), <<300, 100, 400, 400>>, 9)

PRaisesB == [Proposal(Mask(<<768, 1024>>, 250000, 953000), <<0, 0, 512, 512>>, 9)
                EXCEPT !.raises = TRUE]

PNoPixelsB == Proposal(Mask(<<0, 0>>, 0, 0), <<0, 0, 512, 512>>, 10)

BatchPool(image) ==
    IF image = "imgA"
    THEN {PMainA, PAccentA, PSmallA, PShortBboxA, PRaisesA, PEmptyA, POtherShapeA}
    ELSE {PMainB, PAccentB, PEmptyB, PRaisesB, PNoPixelsB}

BatchInit ==
    /\ ServerInit
    /\ visualizer = TRUE
    /\ cls_in = NoClassifyInput
    /\ cls_out = <<>>
    /\ det_in = <<>>
    /\ det_out = <<>>
    /\ bat_in \in {[image |-> image, proposals |-> <<>>] : image \in {"imgA", "imgB"}}
    /\ bat_out = NoBatchOutput
    /\ PaintIdle

\* The oracle's list grows by one proposal.
BatchAdd ==
    /\ bat_out.detected = <<>>
    /\ Len(bat_in.proposals) < MaxProposals
    /\ \E p \in BatchPool(bat_in.image) :
          bat_in' = [bat_in EXCEPT !.proposals = Append(@, p)]
    /\ UNCHANGED <<cls_in, cls_out, det_in, det_out, bat_out, px_in, px_out>>
    /\ UNCHANGED serverVars

\* detect_walls_only, line 238: detect_walls_improved(image)
BatchDetect ==
    /\ bat_out.detected = <<>>
    /\ bat_out' = [bat_out EXCEPT !.detected =
                      <<detect_walls_improved(ImageShape(bat_in.image),
                                              OracleMasks(bat_in.proposals))>>]
    /\ UNCHANGED <<cls_in, cls_out, det_in, det_out, bat_in, px_in, px_out>>
    /\ UNCHANGED serverVars

\* detect_walls_only, lines 244-247: resize_masks_to_original, called when
\* some wall was retained
BatchResize ==
    /\ bat_out.detected # <<>>
    /\ bat_out.detected[1].wall_segments # <<>>
    /\ bat_out.resized = <<>>
    /\ bat_out' = [bat_out EXCEPT !.resized =
                      <<resize_masks_to_original(bat_out.detected[1].wall_segments,
                                                 ImageShape(bat_in.image),
                                                 bat_out.detected[1].scale_factor)>>]
    /\ UNCHANGED <<cls_in, cls_out, det_in, det_out, bat_in, px_in, px_out>>
    /\ UNCHANGED serverVars

\* paint_instant, lines 353-355: apply_smart_paint on all the cached walls
BatchPaint ==
    /\ bat_out.resized # <<>>
    /\ bat_out.resized[1] # <<>>
    /\ bat_out.painted = <<>>
    /\ \E main_walls_only \in BOOLEAN :
          bat_out' = [bat_out EXCEPT !.painted =
              <<[main_walls_only |-> main_walls_only,
                 image |-> apply_smart_paint(Buffer(bat_in.image), bat_out.resized[1],
                                             DefaultColor, DefaultOpacity,
                                             main_walls_only)]>>]
    /\ UNCHANGED <<cls_in, cls_out, det_in, det_out, bat_in, px_in, px_out>>
    /\ UNCHANGED serverVars

SpecBatch == BatchInit /\ [][BatchAdd \/ BatchDetect \/ BatchResize \/ BatchPaint]_vars

-----------------------------------------------------------------------------
(* Properties *)

\* C1: a detect request that ends in failure has stored nothing: the step
\* that ends it leaves mask_cache as it is, and no earlier step of the
\* request stored an entry.
C1_FailedDetectLeavesCache ==
    [][\A w \in Workers :
          (/\ resp'[w].kind = "detect"
           /\ ~resp'[w].success
           /\ pc'[w] = "idle"
           /\ (pc[w] # "idle" \/ started' # started))
          => (mask_cache' = mask_cache /\ ~hist'[w].wrote)]_vars

\* A detect failed after the oracle had returned its proposals.
C1_Witness ==
    \E w \in Workers :
        /\ pc[w] = "idle"
        /\ resp[w].kind = "detect"
        /\ resp[w].status = 500
        /\ hist[w].oracle = "returned"

\* C2: in every cache entry the segments and the summaries have one length,
\* and summary i has id i and the area, confidence, wall_type and bbox of
\* segment i.
C2_SummariesAligned ==
    \A k \in DOMAIN mask_cache :
        LET segs == mask_cache[k].wall_segments
            info == mask_cache[k].wall_info
        IN  /\ Len(segs) = Len(info)
            /\ \A i \in 1..Len(info) :
                  /\ info[i].id = i - 1
                  /\ info[i].area = segs[i].area
                  /\ info[i].confidence = segs[i].confidence
                  /\ info[i].wall_type = segs[i].wall_type
                  /\ info[i].bbox = segs[i].bbox

\* The entry of imgB after the resize dropped one of its two segments.
C2_Witness ==
    /\ InCache(get_image_hash("imgB"))
    /\ Len(mask_cache[get_image_hash("imgB")].wall_segments) = 1
    /\ mask_cache[get_image_hash("imgB")].wall_segments[1].area = 953000

\* C3: a detect that begins after a detect of the same image was answered,
\* with no clear in between, does not call the oracle.
C3_DetectedOnce ==
    \A w \in Workers : hist[w].after_answer => hist[w].oracle = "none"

\* C4: mask_cache changes at a key only in the store of a detect of that key
\* or in a clear, and the oracle is called only by a detect: no step of a
\* paint or visualize request does either.
C4_PaintReadsOnly ==
    [][/\ \A k \in Hashes :
             (\/ (k \in DOMAIN mask_cache) # (k \in DOMAIN mask_cache')
              \/ /\ k \in DOMAIN mask_cache
                 /\ k \in DOMAIN mask_cache'
                 /\ mask_cache'[k] # mask_cache[k])
             => \E w \in Workers :
                   /\ pc'[w] = "idle"
                   /\ \/ pc[w] = "detect_store" /\ loc[w].image_hash = k
                      \/ pc[w] = "clear_rebind"
       /\ (\E k \in Hashes : oracle_calls'[k] > oracle_calls[k])
             => \E w \in Workers : pc[w] = "detect_run" /\ pc'[w] # "detect_run"
      ]_vars

\* A paint was answered with a painted image while the cached original has
\* no paint on it.
C4_Witness ==
    \E w \in Workers :
        /\ resp[w].kind = "paint"
        /\ resp[w].success
        /\ Len(resp[w].result[1].layers) >= 1
        /\ InCache(req[w].image_hash)
        /\ mask_cache[req[w].image_hash].original_image.layers = <<>>

\* C5: a lookup of the cache gives a complete entry or the absent result.
C5_LookupEntryOrAbsent ==
    \A w \in Workers : hist[w].lookup \in {"none", "entry", "absent"}

\* C6: clear reports the number of entries the cache held when it was emptied.
C6_ClearReportsRemoved ==
    \A w \in Workers :
        (resp[w].kind = "clear" /\ resp[w].success)
            => resp[w].cleared = hist[w].removed

\* the segments detect_walls_improved returned in the detection harness
DetOut == det_out[1].wall_segments

\* a proposal the loop of detect_walls_improved does not skip
WellFormed(p) == Len(p.bbox) >= 4 /\ ~p.raises

\* C7 as stated: every returned segment has confidence >= 0.5 and is a main
\* or accent wall.
C7_RetainedConfidence ==
    det_out # <<>> =>
        \A i \in 1..Len(DetOut) :
            /\ DetOut[i].confidence >= 500
            /\ DetOut[i].wall_type \in {"main_wall", "accent_wall"}

\* C7 amended: a proposal is retained iff its classification score is >= 0.5;
\* every returned segment is a main or accent wall whose confidence is the
\* stability score of its proposal times 0.95 or 0.75, which is >= 0.5 when
\* the stability score is >= 0.7.
C7_RetainedByClassScore ==
    det_out # <<>> =>
        /\ Len(DetOut) =
              Cardinality({n \in 1..Len(det_in) :
                  /\ WellFormed(det_in[n])
                  /\ classify_wall_advanced(det_in[n].segmentation, det_in[n].bbox,
                                            ImageShape("imgA"))[2] >= 50})
        /\ \A i \in 1..Len(DetOut) :
              /\ DetOut[i].wall_type \in {"main_wall", "accent_wall"}
              /\ \E n \in 1..Len(det_in) :
                    /\ WellFormed(det_in[n])
                    /\ det_in[n].bbox = DetOut[i].bbox
                    /\ DetOut[i].confidence =
                          det_in[n].stability_score *
                              (IF DetOut[i].wall_type = "main_wall" THEN 95 ELSE 75)
                    /\ det_in[n].stability_score >= 7 => DetOut[i].confidence >= 500

\* A returned accent wall whose confidence is below 0.5, beside a main wall.
C7_Witness ==
    /\ det_out # <<>>
    /\ \E i \in 1..Len(DetOut) :
          DetOut[i].wall_type = "accent_wall" /\ DetOut[i].confidence < 500
    /\ \E i \in 1..Len(DetOut) : DetOut[i].wall_type = "main_wall"

\* C8: a detect whose oracle call raised ends in failure and stores nothing.
C8_OracleErrorFailsDetect ==
    \A w \in Workers :
        (pc[w] = "idle" /\ hist[w].oracle = "raised")
            => (~resp[w].success /\ ~hist[w].wrote)

\* C9: the classifier's result is that of the ordered rule table: main_wall
\* 0.95, else accent_wall 0.75, else rejected 0.0, else background with a
\* score below 0.5; an area ratio below 0.08 is always rejected.
C9_RuleTable ==
    cls_out # <<>> =>
        LET x == cls_in.bbox[1]
            y == cls_in.bbox[2]
            w == cls_in.bbox[3]
            h == cls_in.bbox[4]
            H == cls_in.image_shape[1]
            W == cls_in.image_shape[2]
            longer == IF w >= h THEN w ELSE h
            shorter == IF (IF w <= h THEN w ELSE h) >= 1
                       THEN (IF w <= h THEN w ELSE h) ELSE 1
            main == /\ 100 * (w * h) > 20 * (W * H)
                    /\ 10 * longer < 35 * shorter
                    /\ (x <= 30 \/ x + w >= W - 30)
                    /\ 10 * h > 4 * H
            accent == /\ 100 * (w * h) > 12 * (W * H)
                      /\ 10 * longer < 40 * shorter
                      /\ 15 * (2 * W) < 100 * (2 * x + w)
                      /\ 100 * (2 * x + w) < 85 * (2 * W)
                      /\ 100 * (2 * y + h) < 75 * (2 * H)
                      /\ 10 * h > 3 * H
            small == 100 * (w * h) < 8 * (W * H)
            r == cls_out[1]
        IN  /\ (r = <<"main_wall", 95>>) <=> main
            /\ (r = <<"accent_wall", 75>>) <=> (~main /\ accent)
            /\ (r = <<"rejected", 0>>) <=> (~main /\ ~accent /\ small)
            /\ (~main /\ ~accent /\ ~small) => (r[1] = "background" /\ r[2] < 50)
            /\ small => r = <<"rejected", 0>>

\* A box of exactly 0.20 of the image at the left edge is an accent wall.
C9_Witness ==
    /\ cls_in.bbox = <<0, 0, 80, 50>>
    /\ cls_out = <<<<"accent_wall", 75>>>>

\* the type priority of the ordering
TypeRank(seg) ==
    IF seg.wall_type = "main_wall" THEN 3
    ELSE IF seg.wall_type = "accent_wall" THEN 2 ELSE 1

SameImportance(a, b) ==
    TypeRank(a) = TypeRank(b) /\ a.area * a.confidence = b.area * b.confidence

\* C10: the returned list has the main walls first, then the accent walls,
\* then the rest, each type by non-increasing area x confidence; it holds the
\* retained segments, and segments of equal importance keep the oracle's
\* order, so the same proposals give the same indexes.
C10_SortedByImportance ==
    det_out # <<>> =>
        LET retained == ProcessMasks(<<>>, det_in, ImageShape("imgA"))
        IN  /\ Len(DetOut) = Len(retained)
            /\ \A i, j \in 1..Len(DetOut) :
                  i < j =>
                     \/ TypeRank(DetOut[i]) > TypeRank(DetOut[j])
                     \/ /\ TypeRank(DetOut[i]) = TypeRank(DetOut[j])
                        /\ DetOut[i].area * DetOut[i].confidence
                              >= DetOut[j].area * DetOut[j].confidence
            /\ \A i \in 1..Len(DetOut) :
                  SelectSeq(DetOut, LAMBDA s : SameImportance(s, DetOut[i]))
                      = SelectSeq(retained, LAMBDA s : SameImportance(s, DetOut[i]))

\* An accent wall and two main walls, in another order than the oracle's.
C10_Witness ==
    /\ det_in = <<PAccentWideA, PMainRightA, PMainA>>
    /\ det_out # <<>>
    /\ Len(DetOut) = 3
    /\ DetOut[1].bbox = PMainA.bbox
    /\ DetOut[2].bbox = PMainRightA.bbox
    /\ DetOut[3].wall_type = "accent_wall"

\* The paint harness's cache entry, request and response
PxCached == px_in[1].cached_data

PxRequest == px_in[1].request

PxResponse == px_out[1]

\* The walls at the indexes of a subset that lie in 0..n-1, in the order given
InRangeWalls(wall_segments, ids) ==
    LET kept == SelectSeq(ids, LAMBDA i : 0 <= i /\ i < Len(wall_segments))
    IN  [n \in 1..Len(kept) |-> wall_segments[kept[n] + 1]]

\* C11: a paint request on a cached entry with n walls never fails on an
\* index: with an empty subset it paints all n walls, and with a non-empty
\* subset it paints exactly the walls at the indexes in 0..n-1, in the order
\* given, every other index (too large or negative) being ignored.
C11_SubsetSelectsInRange ==
    px_out # <<>> =>
        LET wall_segments == PxCached.wall_segments
            expected == IF PxRequest.wall_ids = <<>> THEN wall_segments
                        ELSE InRangeWalls(wall_segments, PxRequest.wall_ids)
        IN  /\ PxResponse.status # 500
            /\ expected # <<>> =>
                  /\ PxResponse.success
                  /\ PxResponse.walls = Len(expected)
                  /\ PxResponse.result =
                        <<apply_smart_paint(PxCached.original_image, expected,
                                            PxRequest.color, PxRequest.opacity,
                                            PxRequest.main_walls_only)>>

\* C12: a paint request on a cached entry whose filtered subset is empty (no
\* index of the subset names a cached wall, or main walls only are asked for
\* and none is selected) succeeds, with no segment painted and the image as
\* it was cached.  Stated for the entries with at least one wall and the
\* subsets without a negative index.
C12_EmptySubsetSucceeds ==
    px_out # <<>> =>
        LET wall_segments == PxCached.wall_segments
            chosen == IF PxRequest.wall_ids = <<>> THEN wall_segments
                      ELSE InRangeWalls(wall_segments, PxRequest.wall_ids)
            filtered == IF PxRequest.main_walls_only THEN MainWalls(chosen) ELSE chosen
        IN  (/\ wall_segments # <<>>
             /\ \A n \in 1..Len(PxRequest.wall_ids) : PxRequest.wall_ids[n] >= 0
             /\ filtered = <<>>)
            => /\ PxResponse.success
               /\ PxResponse.status = 200
               /\ PxResponse.result # <<>>
               /\ PxResponse.result[1].layers = <<>>
               /\ Render(PxResponse.result[1]) = PxCached.original_image.base

\* The positions under the masks of the layers m..n of a painted buffer
CoveredBy(layers, m, n) == UNION {layers[k].mask.pixels : k \in m..n}

\* The brightness factor apply_smart_paint used for the k-th painted segment
FactorOf(buffer, k) ==
    BrightnessFactor(RenderRGB(buffer, k - 1), buffer.layers[k].mask.pixels)

\* C13 as stated: for every painted segment of any type and every color, with
\* requested opacity 0 the pixels under its mask equal the original ones
\* (within 1 per channel); with requested opacity 1 and brightness factor 1.0
\* the pixels under its mask (that no later segment paints again) equal the
\* target color exactly; the pixels under no painted mask are unchanged.
C13_OpacityExtremes ==
    (px_out # <<>> /\ PxResponse.success) =>
        LET buffer == PxResponse.result[1]
            layers == buffer.layers
            final == Render(buffer)
            original == PxCached.original_image.base
            target == SwapChannels(PxRequest.color)
        IN  /\ PxRequest.opacity = 0 =>
                  \A i \in CoveredBy(layers, 1, Len(layers)), c \in 1..3 :
                      final[i][c] - original[i][c] \in -1..1
            /\ PxRequest.opacity = 100 =>
                  \A k \in 1..Len(layers) :
                      FactorOf(buffer, k)[1] = FactorOf(buffer, k)[2] =>
                          \A i \in layers[k].mask.pixels
                                      \ CoveredBy(layers, k + 1, Len(layers)) :
                              final[i] = target
            /\ \A i \in DOMAIN original \ CoveredBy(layers, 1, Len(layers)) :
                  final[i] = original[i]

\* C13, amended: with requested opacity 0 the pixels under a painted mask
\* equal the original ones; with requested opacity 1 and brightness factor
\* 1.0 the pixels under a main wall's mask equal the target color exactly,
\* and those under an accent wall's mask are, within 1 per channel, 0.1 of
\* the pixel the segment found plus 0.9 of the target color; the pixels under
\* no painted mask are unchanged.
C13_OpacityExtremesByType ==
    (px_out # <<>> /\ PxResponse.success) =>
        LET buffer == PxResponse.result[1]
            layers == buffer.layers
            final == Render(buffer)
            original == PxCached.original_image.base
            target == SwapChannels(PxRequest.color)
        IN  /\ PxRequest.opacity = 0 =>
                  \A i \in CoveredBy(layers, 1, Len(layers)) : final[i] = original[i]
            /\ PxRequest.opacity = 100 =>
                  \A k \in 1..Len(layers) :
                      FactorOf(buffer, k)[1] = FactorOf(buffer, k)[2] =>
                          \A i \in layers[k].mask.pixels
                                      \ CoveredBy(layers, k + 1, Len(layers)) :
                              /\ layers[k].wall_type = "main_wall" => final[i] = target
                              /\ layers[k].wall_type = "accent_wall" =>
                                    \A c \in 1..3 :
                                        LET found == RenderRGB(buffer, k - 1)[i][c]
                                            blend == found * 100 + PxRequest.color[c] * 900
                                        IN  SwapChannels(final[i])[c] * 1000 - blend
                                                \in -1000..1000
            /\ \A i \in DOMAIN original \ CoveredBy(layers, 1, Len(layers)) :
                  final[i] = original[i]

\* A main wall and an accent wall are painted at opacity 1 on the mid-gray
\* image: position 1 (main wall only) has the target color, position 3
\* (accent wall only) has not.
C13_Witness ==
    /\ px_out # <<>>
    /\ PxResponse.success
    /\ PxRequest.opacity = 100
    /\ PxRequest.color = <<255, 0, 0>>
    /\ PxCached.original_image.base = PxFlat
    /\ Len(PxResponse.result[1].layers) = 2
    /\ PxResponse.result[1].layers[1].mask = SegMain.mask
    /\ PxResponse.result[1].layers[2].mask = SegAccent.mask
    /\ Render(PxResponse.result[1])[1] = <<0, 0, 255>>
    /\ Render(PxResponse.result[1])[3] = <<12, 12, 242>>

\* C16: where the masks of painted segments overlap, the last segment wins:
\* the final value of a position that several painted segments cover is the
\* blend of the ORIGINAL pixel with the adjusted color of the last segment
\* covering it, at that segment's effective opacity, whatever the earlier
\* segments painted there.
C16_LastWriteOverOriginal ==
    (px_out # <<>> /\ PxResponse.success) =>
        LET buffer == PxResponse.result[1]
            layers == buffer.layers
            final == RenderRGB(buffer, Len(layers))
            original == RenderRGB(buffer, 0)
        IN  \A k \in 1..Len(layers) :
                \A i \in (layers[k].mask.pixels \cap CoveredBy(layers, 1, k - 1))
                            \ CoveredBy(layers, k + 1, Len(layers)) :
                    \A c \in 1..3 :
                        final[i][c] = BlendChannel(original[i][c], layers[k].color[c],
                                                   FactorOf(buffer, k), layers[k].opacity)

\* A list without its k-th element
Without(list, k) == SubSeq(list, 1, k - 1) \o SubSeq(list, k + 1, Len(list))

\* The batch harness's image shape and results
BatShape == ImageShape(bat_in.image)

BatDetected == bat_out.detected[1]

BatResized == bat_out.resized[1]

BatPainted == bat_out.painted[1]

\* C14: a segment that fails does not abort its batch.  A proposal whose
\* classification raises (or whose bbox is short), a segment whose rescaling
\* raises, and a segment whose mask has another shape than the image or no
\* pixel when it is painted, are skipped alone: each stage's result is the
\* one the stage gives on the same input without the failing segment.
C14_FailingSegmentSkippedAlone ==
    /\ bat_out.detected # <<>> =>
          \A k \in 1..Len(bat_in.proposals) :
              (bat_in.proposals[k].raises \/ Len(bat_in.proposals[k].bbox) < 4) =>
                  BatDetected = detect_walls_improved(
                                    BatShape, OracleMasks(Without(bat_in.proposals, k)))
    /\ bat_out.resized # <<>> =>
          \A k \in 1..Len(BatDetected.wall_segments) :
              (/\ BatDetected.scale_factor[1] # BatDetected.scale_factor[2]
               /\ BatDetected.wall_segments[k].mask.shape = <<0, 0>>) =>
                  BatResized = resize_masks_to_original(
                                   Without(BatDetected.wall_segments, k), BatShape,
                                   BatDetected.scale_factor)
    /\ bat_out.painted # <<>> =>
          \A k \in 1..Len(BatResized) :
              (BatResized[k].mask.shape # BatShape \/ BatResized[k].mask.count = 0) =>
                  BatPainted.image = apply_smart_paint(
                                         Buffer(bat_in.image), Without(BatResized, k),
                                         DefaultColor, DefaultOpacity,
                                         BatPainted.main_walls_only)

\* On the scaled image a proposal raises in the classifier, a 0 x 0 mask
\* raises in the rescaling, and the main wall after them is detected,
\* rescaled and painted.
C14_Witness ==
    /\ bat_in = [image |-> "imgB", proposals |-> <<PRaisesB, PNoPixelsB, PMainB>>]
    /\ bat_out.painted # <<>>
    /\ Len(BatDetected.wall_segments) = 2
    /\ Len(BatResized) = 1
    /\ BatResized[1].area = PMainB.segmentation.up
    /\ Len(BatPainted.image.layers) = 1

\* C15: resize_masks_to_original returns a subsequence of its input.  With
\* scale_factor 1.0 it returns the input list.  Otherwise the output holds,
\* in the input's order and once each, the segments whose mask could be
\* resized to an area above 0, each with its wall_type and confidence and
\* with the area of the resized mask; every other segment is dropped.
C15_ResizeSubsequence ==
    bat_out.resized # <<>> =>
        LET wall_segments == BatDetected.wall_segments
            scale_factor == BatDetected.scale_factor
        IN  IF scale_factor[1] = scale_factor[2]
            THEN BatResized = wall_segments
            ELSE LET kept == SelectSeq(wall_segments,
                                 LAMBDA seg : /\ seg.mask.shape # <<0, 0>>
                                              /\ seg.mask.up > 0)
                 IN  /\ Len(BatResized) = Len(kept)
                     /\ \A n \in 1..Len(kept) :
                           /\ BatResized[n].wall_type = kept[n].wall_type
                           /\ BatResized[n].confidence = kept[n].confidence
                           /\ BatResized[n].mask.shape = BatShape
                           /\ BatResized[n].mask.count = kept[n].mask.up
                           /\ BatResized[n].area = BatResized[n].mask.count
                           /\ BatResized[n].area > 0

\* On the scaled image the accent wall whose resized mask is empty is
\* dropped, and the main wall and the accent wall around it are kept in
\* their order with their new areas.
C15_Witness ==
    /\ bat_in.image = "imgB"
    /\ bat_out.resized # <<>>
    /\ Len(BatDetected.wall_segments) = 3
    /\ BatDetected.wall_segments[2].area # 0
    /\ BatDetected.wall_segments[3].area = 0
    /\ Len(BatResized) = 2
    /\ BatResized[1].wall_type = "main_wall"
    /\ BatResized[1].area = PMainB.segmentation.up
    /\ BatResized[1].area # BatDetected.wall_segments[1].area
    /\ BatResized[2].wall_type = "accent_wall"
    /\ BatResized[2].area = PAccentB.segmentation.up

====
